---- MODULE Spec2Model ----
(***************************************************************************)
(* A model of the achaekek Manifold client: the request variants of        *)
(* request_types.py and achaekek.py, their to_json serialization, the      *)
(* enumerated types of every revision in the tree, and the Client's        *)
(* operations over an HTTP layer that records what it is handed.           *)
(*                                                                         *)
(* Python values are records tagged by their type (field t), a request     *)
(* variant is [mod, cls, d] with d its __dict__, and a dict is a function   *)
(* from its keys.  An operation that raises yields Raise(<exception>).     *)
(***************************************************************************)
EXTENDS Integers, Sequences, FiniteSets, TLC

VARIABLES rec, results, call, api_key, tz, lookup

vars == <<rec, results, call, api_key, tz, lookup>>

(* ------------------------------------------------------------------ *)
(* Bounds                                                              *)
(* ------------------------------------------------------------------ *)

\* How many times to_json is called on one record before it is discarded.
MaxCalls == 2

(* ------------------------------------------------------------------ *)
(* Python values                                                       *)
(* ------------------------------------------------------------------ *)

PyNone == [t |-> "None"]

PyStr(s) == [t |-> "str", s |-> s]

\* An int, held as hi * 10^6 + lo with 0 <= lo < 10^6, so that epoch
\* milliseconds fit.
PyInt(i) == [t |-> "int", hi |-> i \div 1000000, lo |-> i % 1000000]

\* x * 1000 of an int.
times1000(x) ==
    [t |-> "int", hi |-> x.hi * 1000 + (x.lo * 1000) \div 1000000,
     lo |-> (x.lo * 1000) % 1000000]

\* The value of an int that is small enough to be computed with.
IntOf(x) == x.hi * 1000000 + x.lo

PyBool(b) == [t |-> "bool", b |-> b]

\* A float, held in thousandths (0.456 is 456).
PyFloat(milli) == [t |-> "float", milli |-> milli]

PyList(items) == [t |-> "list", items |-> items]

\* The (content, tag) pair of a tagged description.
PyTuple(content, tag) == [t |-> "tuple", content |-> content, tag |-> tag]

\* A naive datetime.
PyDatetime(Y, M, D, h, m, s, us) ==
    [t |-> "datetime", Y |-> Y, M |-> M, D |-> D, h |-> h, m |-> m, s |-> s, us |-> us]

\* The outcome of an operation that raised.
Raise(exc) == [ok |-> FALSE, exc |-> exc]

\* The outcome of an operation that returned v.
Return(v) == [ok |-> TRUE, val |-> v]

(* ------------------------------------------------------------------ *)
(* Enumerated types: symbolic name -> wire string, in declaration order *)
(* ------------------------------------------------------------------ *)

OutcomeType ==
    << <<"BINARY", "BINARY">>, <<"MULTIPLE_CHOICE", "MULTIPLE_CHOICE">>,
       <<"PSEUDO_NUMERIC", "PSEUDO_NUMERIC">>, <<"POLL", "POLL">>,
       <<"BOUNTIED_QUESTION", "BOUNTIED_QUESTION">> >>

DescriptionFormat ==
    << <<"HTML", "descriptionHTML">>, <<"MARKDOWN", "descriptionMarkdown">>,
       <<"JSON", "descriptionJSON">> >>

Visibility ==
    << <<"PUBLIC", "public">>, <<"UNLISTED", "unlisted">> >>

AddAnswersMode ==
    << <<"DISABLED", "DISABLED">>, <<"ONLY_CREATORS", "ONLY_CREATORS">>,
       <<"ANYONE", "ANYONE">> >>

\* The first revision's definition (src/src/achaekek/__init__.py).
AddAnswersMode_v0 ==
    << <<"DISABLED", "DISABLED">>, <<"ONLY_CREATORS", "ONLY_CREATORS">>,
       <<"ANYONE", "DISABLED">> >>

Outcome ==
    << <<"YES", "YES">>, <<"NO", "NO">> >>

\* Every definition of an enumerated type in the tree: (file, class, body).
EnumDefs ==
    { [mod |-> "request_types", cls |-> "OutcomeType", body |-> OutcomeType],
      [mod |-> "request_types", cls |-> "DescriptionFormat", body |-> DescriptionFormat],
      [mod |-> "achaekek", cls |-> "OutcomeType", body |-> OutcomeType],
      [mod |-> "achaekek", cls |-> "Visibility", body |-> Visibility],
      [mod |-> "achaekek", cls |-> "DescriptionFormat", body |-> DescriptionFormat],
      [mod |-> "achaekek", cls |-> "AddAnswersMode", body |-> AddAnswersMode],
      [mod |-> "achaekek", cls |-> "Outcome", body |-> Outcome],
      [mod |-> "init", cls |-> "OutcomeType", body |-> OutcomeType],
      [mod |-> "init", cls |-> "Visibility", body |-> Visibility],
      [mod |-> "init", cls |-> "DescriptionFormat", body |-> DescriptionFormat],
      [mod |-> "init", cls |-> "AddAnswersMode", body |-> AddAnswersMode],
      [mod |-> "init0", cls |-> "OutcomeType", body |-> OutcomeType],
      [mod |-> "init0", cls |-> "AddAnswersMode", body |-> AddAnswersMode_v0] }

\* The symbolic names an enum body declares.
Names(body) == {body[i][1] : i \in 1..Len(body)}

\* The wire strings an enum body declares.
WireStrings(body) == {body[i][2] : i \in 1..Len(body)}

\* Index of the line that declares name.
DeclIndex(body, name) == CHOOSE i \in 1..Len(body) : body[i][1] = name

\* enum.Enum: a name whose value an earlier line already has is an alias of that
\* earlier member; otherwise it is a member of its own.
EnumMember(cls, body, name) ==
    LET v     == body[DeclIndex(body, name)][2]
        first == CHOOSE i \in 1..Len(body) :
                     /\ body[i][2] = v
                     /\ \A j \in 1..(i - 1) : body[j][2] /= v
    IN  [t |-> "enum", cls |-> cls, name |-> body[first][1], value |-> v]

\* member.value
EnumValue(member) == PyStr(member.value)

\* The members of an enum, as the caller can name them.
Members(cls, body) == {EnumMember(cls, body, n) : n \in Names(body)}

(* ------------------------------------------------------------------ *)
(* Time: datetime.timetuple, time.mktime, and the inverse              *)
(* ------------------------------------------------------------------ *)

IsLeap(y) == (y % 4 = 0 /\ y % 100 /= 0) \/ y % 400 = 0

DaysInMonth(y, m) ==
    IF m = 2 THEN (IF IsLeap(y) THEN 29 ELSE 28)
    ELSE IF m \in {4, 6, 9, 11} THEN 30 ELSE 31

\* Days from 1970-01-01 to the proleptic Gregorian date y-m-d.
days_from_civil(y, m, d) ==
    LET yy  == IF m <= 2 THEN y - 1 ELSE y
        era == yy \div 400
        yoe == yy - era * 400
        mp  == (m + 9) % 12
        doy == (153 * mp + 2) \div 5 + d - 1
        doe == yoe * 365 + yoe \div 4 - yoe \div 100 + doy
    IN  era * 146097 + doe - 719468

\* The date that lies z days after 1970-01-01, as <<y, m, d>>.
civil_from_days(z) ==
    LET zz  == z + 719468
        era == zz \div 146097
        doe == zz - era * 146097
        yoe == (doe - doe \div 1460 + doe \div 36524 - doe \div 146096) \div 365
        doy == doe - (365 * yoe + yoe \div 4 - yoe \div 100)
        mp  == (5 * doy + 2) \div 153
        d   == doy - (153 * mp + 2) \div 5 + 1
        m   == IF mp < 10 THEN mp + 3 ELSE mp - 9
        y   == yoe + era * 400 + (IF m <= 2 THEN 1 ELSE 0)
    IN  <<y, m, d>>

\* datetime.timetuple(): the broken-down time; the microsecond is not part of it.
timetuple(dt) == <<dt.Y, dt.M, dt.D, dt.h, dt.m, dt.s>>

\* time.mktime(tt): seconds since the epoch of the local time tt, where local time
\* is offset seconds east of UTC.
mktime(tt, offset) ==
    days_from_civil(tt[1], tt[2], tt[3]) * 86400
        + tt[4] * 3600 + tt[5] * 60 + tt[6] - offset

\* Variant of epoch_ms without the factor: int(time.mktime(x.timetuple())).
epoch_ms_seconds(dt, offset) == PyInt(mktime(timetuple(dt), offset))

\* int(time.mktime(x.timetuple()) * 1000)
epoch_ms(dt, offset) == times1000(PyInt(mktime(timetuple(dt), offset)))

\* datetime.fromtimestamp(sec): the local structured time of an epoch second.
fromtimestamp(sec, offset) ==
    LET loc  == sec + offset
        days == loc \div 86400
        sod  == loc - days * 86400
        ymd  == civil_from_days(days)
    IN  PyDatetime(ymd[1], ymd[2], ymd[3],
                   sod \div 3600, (sod % 3600) \div 60, sod % 60, 0)

(* ------------------------------------------------------------------ *)
(* Dicts, and the local state of a to_json call                        *)
(* ------------------------------------------------------------------ *)

\* d[key] = v
setitem(d, key, v) == [k \in DOMAIN d \cup {key} |-> IF k = key THEN v ELSE d[k]]

\* del d[key]
delitem(d, key) == [k \in DOMAIN d \ {key} |-> d[k]]

\* Variant of dict_comprehension without the filter: {k: v for k, v in d.items()}.
dict_copy(d) == d

\* {k: v for k, v in d.items() if v is not None}: a new dict.
dict_comprehension(d) == [k \in {x \in DOMAIN d : d[x] /= PyNone} |-> d[k]]

\* Variant of bind_json that makes no copy: json = self.__dict__, the object's
\* own dict.
bind_json_aliased(d) == [self |-> d, json |-> d, alias |-> TRUE, exc |-> ""]

\* json = {k: v for k, v in self.__dict__.items() if v is not None}: the frame of
\* a to_json call after its first statement: self's __dict__, the local json, and
\* whether json is self's __dict__ itself.
bind_json(d) == [self |-> d, json |-> dict_comprehension(d), alias |-> FALSE, exc |-> ""]

\* The frame of a call that raised exc before binding anything.
raise_frame(d, exc) == [self |-> d, json |-> <<>>, alias |-> FALSE, exc |-> exc]

\* json[key] = v inside a frame.
store(st, key, v) ==
    [st EXCEPT !.json = setitem(@, key, v),
               !.self = IF st.alias THEN setitem(@, key, v) ELSE @]

\* del json[key] inside a frame.
delete(st, key) ==
    [st EXCEPT !.json = delitem(@, key),
               !.self = IF st.alias THEN delitem(@, key) ELSE @]

\* The frame after an exception propagates out of it.
raise_in(st, exc) == [st EXCEPT !.exc = exc]

\* json[key] = <expr>.value: AttributeError when <expr> is no enum member.
store_value(st, key, v) ==
    IF v.t = "enum" THEN store(st, key, EnumValue(v)) ELSE raise_in(st, "AttributeError")

\* json[key] = int(time.mktime(<expr>.timetuple()) * 1000): AttributeError when
\* <expr> is no datetime.
store_epoch_ms(st, key, v, offset) ==
    IF v.t = "datetime" THEN store(st, key, epoch_ms(v, offset))
    ELSE raise_in(st, "AttributeError")

\* What a call hands back: its outcome and the object's __dict__ after it.
finish(st) ==
    [ret  |-> IF st.exc = "" THEN Return(st.json) ELSE Raise(st.exc),
     self |-> st.self]

(* ------------------------------------------------------------------ *)
(* Market creation: _CreateMarket.to_json and its override             *)
(* ------------------------------------------------------------------ *)

\* Variant of flatten_description that leaves the payload as it is: the tag's
\* wire string never becomes a key and "description" stays.
flatten_description_kept(st) ==
    st

\* if "description" in json and isinstance(self.description, tuple):
\*     json[self.description[1].value] = self.description[0]; del json["description"]
flatten_description(st) ==
    IF "description" \in DOMAIN st.json /\ st.self.description.t = "tuple"
    THEN IF st.self.description.tag.t = "enum"
         THEN delete(store(st, st.self.description.tag.value,
                           PyStr(st.self.description.content)),
                     "description")
         ELSE raise_in(st, "AttributeError")
    ELSE st

\* _CreateMarket.to_json, as a frame.
CreateMarket_frame(d, offset) ==
    LET s0 == bind_json(d)
        s1 == IF "outcomeType" \in DOMAIN s0.json
              THEN store_value(s0, "outcomeType", s0.self.outcomeType)
              ELSE s0
        s2 == IF s1.exc = "" /\ "closeTime" \in DOMAIN s1.json
              THEN store_epoch_ms(s1, "closeTime", s1.self.closeTime, offset)
              ELSE s1
        s3 == IF s2.exc = "" THEN flatten_description(s2) ELSE s2
    IN  s3

\* _CreateMarket.to_json
CreateMarket_to_json(d, offset) == finish(CreateMarket_frame(d, offset))

\* CreateMultipleChoiceMarket.to_json
CreateMultipleChoiceMarket_to_json(d, offset) ==
    LET s0 == CreateMarket_frame(d, offset)
        s1 == IF s0.exc = "" /\ "addAnswersMode" \in DOMAIN s0.json
              THEN store_value(s0, "addAnswersMode", s0.json["addAnswersMode"])
              ELSE s0
    IN  finish(s1)

(* ------------------------------------------------------------------ *)
(* RequestModel and its subclasses (request_types.py)                  *)
(* ------------------------------------------------------------------ *)

\* RequestModel.to_json, reached through super().to_json(): the frame a subclass
\* goes on with.
RequestModel_frame(d) == bind_json(d)

\* RequestModel.to_json
RequestModel_to_json(d) == finish(RequestModel_frame(d))

\* super.to_json(): an attribute lookup on the builtin type super, which has no
\* attribute to_json.
super_to_json(d) == raise_frame(d, "AttributeError")

\* 2^n modulo 1000.
RECURSIVE pow2mod(_)
pow2mod(n) == IF n = 0 THEN 1 ELSE (2 * pow2mod(n - 1)) % 1000

\* The exponent of the double nearest k/1000 (k > 0): the e with
\* 2^e <= k/1000 < 2^(e+1).
RECURSIVE binary_exponent(_, _)
binary_exponent(num, den) ==
    IF num < den THEN binary_exponent(2 * num, den) - 1
    ELSE IF num >= 2 * den THEN binary_exponent(num, 2 * den) + 1
    ELSE 0

\* Where the double nearest k/1000 lies: its 53-bit significand is k * 2^s / 1000
\* rounded to an integer, s = 52 - exponent, and the remainder of that division
\* tells whether the double is k/1000 exactly (0), below it (-1) or above it (1).
double_error(k) ==
    LET s == 52 - binary_exponent(k, 1000)
        r == ((k % 1000) * pow2mod(s)) % 1000
    IN  IF r = 0 THEN 0 ELSE IF r < 500 THEN -1 ELSE 1

\* round(x, 2) of a non-negative float in thousandths: the double's own value is
\* rounded, so a decimal tie goes the way the double lies, and an exact tie
\* (0.125) goes to the even hundredth.
round2_magnitude(k) ==
    LET q == k \div 10
    IN  IF k % 10 /= 5 THEN (k + 5) \div 10
        ELSE IF double_error(k) = 1 THEN q + 1
        ELSE IF double_error(k) = -1 THEN q
        ELSE IF q % 2 = 0 THEN q ELSE q + 1

\* round(x, 2) of a float in thousandths.
round2(v) ==
    IF v.milli >= 0 THEN PyFloat(round2_magnitude(v.milli) * 10)
    ELSE PyFloat(-(round2_magnitude(-v.milli) * 10))

\* The statements of CreateBetRequest.to_json after json is bound.
CreateBetRequest_body(s0, offset) ==
    LET s1 == IF s0.exc = "" THEN store_value(s0, "outcome", s0.json["outcome"]) ELSE s0
        s2 == IF s1.exc = "" /\ "limitprob" \in DOMAIN s1.json
              THEN store(s1, "limitprob", round2(s1.json["limitprob"]))
              ELSE s1
        s3 == IF s2.exc = "" /\ "expiresAt" \in DOMAIN s2.json
              THEN store_epoch_ms(s2, "expiresAt", s2.self.expiresAt, offset)
              ELSE s2
    IN  s3

\* request_types.CreateBetRequest.to_json
CreateBetRequest_to_json(d, offset) ==
    finish(CreateBetRequest_body(super_to_json(d), offset))

\* achaekek.CreateBetRequest.to_json
ach_CreateBetRequest_to_json(d, offset) ==
    finish(CreateBetRequest_body(bind_json(d), offset))

\* GetGroupsRequest.to_json
GetGroupsRequest_to_json(d, offset) ==
    LET s0 == super_to_json(d)
        s1 == IF s0.exc = "" /\ "beforeTime" \in DOMAIN s0.json
              THEN store_epoch_ms(s0, "beforeTime", s0.self.beforeTime, offset)
              ELSE s0
    IN  finish(s1)

\* [r.__dict__ for r in self.resolutions]
resolution_dicts(resolutions) ==
    PyList([i \in 1..Len(resolutions.items) |->
               [t |-> "dict", d |-> resolutions.items[i].d]])

\* ResolveMultipleChoiceMarket.to_json
ResolveMultipleChoiceMarket_to_json(d) ==
    LET s0 == super_to_json(d)
        s1 == IF s0.exc = "" /\ "resolutions" \in DOMAIN s0.json
              THEN store(s0, "resolutions", resolution_dicts(s0.self.resolutions))
              ELSE s0
    IN  finish(s1)

\* CreateCommentRequest.to_json: the tag is a plain string and is the key itself.
CreateCommentRequest_to_json(d) ==
    LET s0 == RequestModel_frame(d)
        s1 == IF "description" \in DOMAIN s0.json /\ s0.self.description.t = "tuple"
              THEN delete(store(s0, s0.self.description.tag.s,
                                PyStr(s0.self.description.content)),
                          "description")
              ELSE s0
    IN  finish(s1)

\* GetManagramsRequest.to_json
GetManagramsRequest_to_json(d, offset) ==
    LET s0 == RequestModel_frame(d)
        s1 == IF "before" \in DOMAIN s0.json
              THEN store_epoch_ms(s0, "before", s0.self.before, offset)
              ELSE s0
        s2 == IF s1.exc = "" /\ "after" \in DOMAIN s1.json
              THEN store_epoch_ms(s1, "after", s1.self.after, offset)
              ELSE s1
    IN  finish(s2)

(* ------------------------------------------------------------------ *)
(* What callers supply: the values each field is drawn from            *)
(* ------------------------------------------------------------------ *)

\* S, or absent.
Opt(S) == {PyNone} \cup S

\* The source files that define request variants.
Mods == {"request_types", "achaekek", "init"}

\* Local timezones (seconds east of UTC) the process may run in.
Offsets == {-18000, 3600}

\* Credentials a Client is constructed with.
Keys == {"k1", "k2"}

Times == {PyDatetime(2024, 2, 29, 12, 0, 1, 0)}

Questions == {PyStr("Will X happen?")}

\* A description is a plain string or a (content, DescriptionFormat) pair.
DescriptionArgs ==
    {PyStr("plain")}
        \cup {PyTuple("<p>x</p>", m) : m \in Members("DescriptionFormat", DescriptionFormat)}

\* request_types.py declares visibility as Literal["public", "unlisted"]; the
\* other two files declare it as the enum Visibility.
VisibilityArgs(mod) ==
    IF mod = "request_types" THEN {PyStr("public"), PyStr("unlisted")}
    ELSE Members("Visibility", Visibility)

GroupIdArgs == {PyList(<<>>), PyList(<<PyStr("g1")>>)}

\* outcomeType is an ordinary init field with a default: the caller may leave it,
\* pass another member, or pass None.
OutcomeTypeArgs(default) ==
    { EnumMember("OutcomeType", OutcomeType, default),
      EnumMember("OutcomeType", OutcomeType, IF default = "POLL" THEN "BINARY" ELSE "POLL"),
      PyNone }

\* request_types.py declares addAnswersMode as a Literal string (and defines no
\* enum for it); the other two files declare it as the enum AddAnswersMode.
AddAnswersModeArgs(mod) ==
    Opt(Members("AddAnswersMode", AddAnswersMode))
        \cup (IF mod = "request_types" THEN {PyStr("ANYONE")} ELSE {})

AnswerArgs == {PyList(<<PyStr("A"), PyStr("B")>>)}

\* A MultipleChoiceResolution(answer, pct) object.
MultipleChoiceResolution(answer, pct) ==
    [t |-> "MultipleChoiceResolution", d |-> [answer |-> PyStr(answer), pct |-> PyInt(pct)]]

ResolutionArgs ==
    { PyList(<<>>),
      PyList(<<MultipleChoiceResolution("A", 100)>>),
      PyList(<<MultipleChoiceResolution("A", 60), MultipleChoiceResolution("B", 40)>>),
      PyList(<<MultipleChoiceResolution("A", 60), MultipleChoiceResolution("B", 30)>>) }

(* ------------------------------------------------------------------ *)
(* The dataclasses: each is the set of __dict__s its __init__ can build *)
(* ------------------------------------------------------------------ *)

CreateBinaryMarket(mod) ==
    [question: Questions, closeTime: Opt(Times), description: Opt(DescriptionArgs),
     visibility: Opt(VisibilityArgs(mod)), groupIds: Opt(GroupIdArgs),
     extraLiquidity: Opt({PyInt(100)}),
     initialProb: {PyInt(0), PyInt(1), PyInt(99), PyInt(100)},
     outcomeType: OutcomeTypeArgs("BINARY")]

CreatePseudoNumericMarket(mod) ==
    [question: Questions, closeTime: Opt(Times), description: Opt(DescriptionArgs),
     visibility: Opt(VisibilityArgs(mod)), groupIds: Opt(GroupIdArgs),
     extraLiquidity: Opt({PyInt(100)}),
     min: {PyFloat(0)}, max: {PyFloat(10000)}, isLogScale: {PyBool(FALSE)},
     initialValue: {PyFloat(5000)},
     outcomeType: OutcomeTypeArgs("PSEUDO_NUMERIC")]

CreateMultipleChoiceMarket(mod) ==
    IF mod = "request_types"
    THEN [question: Questions, closeTime: Opt(Times), description: Opt(DescriptionArgs),
          visibility: Opt(VisibilityArgs(mod)), groupIds: Opt(GroupIdArgs),
          extraLiquidity: Opt({PyInt(100)}),
          answers: AnswerArgs, addAnswersMode: AddAnswersModeArgs(mod),
          outcomeType: OutcomeTypeArgs("MULTIPLE_CHOICE"),
          shouldAnswersSumToOne: {PyBool(TRUE)}]
    ELSE [question: Questions, closeTime: Opt(Times), description: Opt(DescriptionArgs),
          visibility: Opt(VisibilityArgs(mod)), groupIds: Opt(GroupIdArgs),
          extraLiquidity: Opt({PyInt(100)}),
          answers: AnswerArgs, addAnswersMode: AddAnswersModeArgs(mod),
          outcomeType: OutcomeTypeArgs("MULTIPLE_CHOICE")]

CreatePollMarket(mod) ==
    [question: Questions, closeTime: Opt(Times), description: Opt(DescriptionArgs),
     visibility: Opt(VisibilityArgs(mod)), groupIds: Opt(GroupIdArgs),
     extraLiquidity: Opt({PyInt(100)}),
     answers: AnswerArgs, outcomeType: OutcomeTypeArgs("POLL")]

CreateBountiedQuestionMarket(mod) ==
    [question: Questions, closeTime: Opt(Times), description: Opt(DescriptionArgs),
     visibility: Opt(VisibilityArgs(mod)), groupIds: Opt(GroupIdArgs),
     extraLiquidity: Opt({PyInt(100)}),
     totalBounty: {PyInt(500)}, outcomeType: OutcomeTypeArgs("BOUNTIED_QUESTION")]

\* Limit probabilities in thousandths: one with no decimal tie, and ties whose
\* double is exact (0.125), below (0.475) and above (0.455) the decimal.
LimitProbs == {PyFloat(456), PyFloat(125), PyFloat(475), PyFloat(455)}

\* request_types.py declares outcome as Literal["YES", "NO"] with default "YES";
\* achaekek.py declares it as the enum Outcome with default Outcome.YES.
CreateBetRequest(mod) ==
    [amount: {PyInt(10)}, contractId: {PyStr("c1")},
     outcome: IF mod = "request_types" THEN {PyStr("YES"), PyStr("NO")}
              ELSE Members("Outcome", Outcome),
     limitprob: Opt(LimitProbs), expiresAt: Opt(Times)]

GetMarketsRequest ==
    [limit: Opt({PyInt(5)}), sort: Opt({PyStr("updated-time")}), order: Opt({PyStr("asc")}),
     before: Opt({PyStr("m0")}), userId: Opt({PyStr("u1")}), groupId: Opt({PyStr("g1")})]

GetBetsRequest ==
    [userId: Opt({PyStr("u1")}), username: Opt({PyStr("name")}),
     contractId: Opt({PyStr("c1")}), contractSlug: Opt({PyStr("slug")}),
     limit: Opt({PyInt(5)}), before: Opt({PyStr("b0")}), after: Opt({PyStr("b9")}),
     kinds: Opt({PyStr("open-limit")}),
     order: Opt({PyStr("asc")})]

GetCommentsRequest ==
    [contractId: Opt({PyStr("c1")}), contractSlug: Opt({PyStr("slug")}),
     limit: Opt({PyInt(5)}), page: Opt({PyInt(0)}), userId: Opt({PyStr("u1")})]

SearchRequest ==
    [term: {PyStr("x")}, sort: Opt({PyStr("score")}), filter: Opt({PyStr("open")}),
     contractType: Opt({PyStr("BINARY")}), topicSlug: Opt({PyStr("topic")}),
     creatorId: Opt({PyStr("u1")}), limit: Opt({PyInt(5)}), offset: Opt({PyInt(0)})]

GetGroupsRequest ==
    [beforeTime: Opt(Times), availableToUserId: Opt({PyStr("u1")})]

GetPositionsRequest ==
    [order: Opt({PyStr("profit")}), top: Opt({PyInt(3)}), bottom: Opt({PyInt(3)}),
     userId: Opt({PyStr("u1")})]

GetUsersRequest ==
    [limit: Opt({PyInt(5)}), before: Opt({PyStr("u0")})]

AwardBountyRequest ==
    [amount: {PyInt(10)}, commentId: {PyStr("cm1")}]

ModifyGroupRequest ==
    [groupId: {PyStr("g1")}, remove: Opt({PyBool(TRUE), PyBool(FALSE)})]

ResolveBinaryMarket ==
    [outcome: {PyStr("YES"), PyStr("MKT")}, probabilityInt: Opt({PyInt(70)})]

ResolveMultipleChoiceMarket ==
    [outcome: {PyStr("MKT"), PyInt(1)}, resolutions: Opt(ResolutionArgs)]

ResolveNumericMarket ==
    [outcome: {PyStr("CANCEL"), PyInt(2)}, value: Opt({PyFloat(2500)}),
     probabilityInt: Opt({PyFloat(250)})]

SellSharesRequest ==
    [outcome: Opt({PyStr("YES")}), shares: Opt({PyInt(4)}), answerId: Opt({PyStr("a1")})]

SellSharesDPMRequest ==
    [contractId: Opt({PyStr("c1")}), betId: Opt({PyStr("b1")})]

CreateCommentRequest ==
    [contractId: {PyStr("c1")},
     description: Opt({PyStr("plain")}
                      \cup {PyTuple("hello", PyStr(tag)) : tag \in {"content", "html", "markdown"}})]

GetManagramsRequest ==
    [toId: Opt({PyStr("u1")}), fromId: Opt({PyStr("u2")}), limit: Opt({PyInt(5)}),
     before: Opt(Times), after: Opt(Times)]

GetLeaguesRequest ==
    [userId: Opt({PyStr("u1")}), season: Opt({PyInt(1)}), cohort: Opt({PyStr("gold")})]

MarketClasses ==
    {"CreateBinaryMarket", "CreatePseudoNumericMarket", "CreateMultipleChoiceMarket",
     "CreatePollMarket", "CreateBountiedQuestionMarket"}

\* The RequestModel subclasses of request_types.py.
RequestModelClasses ==
    {"CreateBetRequest", "GetMarketsRequest", "GetBetsRequest", "GetCommentsRequest",
     "SearchRequest", "GetGroupsRequest", "GetPositionsRequest", "GetUsersRequest",
     "AwardBountyRequest", "ModifyGroupRequest", "ResolveBinaryMarket",
     "ResolveMultipleChoiceMarket", "ResolveNumericMarket", "SellSharesRequest",
     "SellSharesDPMRequest", "CreateCommentRequest", "GetManagramsRequest",
     "GetLeaguesRequest"}

\* The request dataclasses each file defines.
Classes(mod) ==
    CASE mod = "request_types" -> MarketClasses \cup RequestModelClasses
      [] mod = "achaekek" ->
             MarketClasses \cup {"CreateBetRequest", "GetMarketsRequest", "GetBetsRequest",
                                 "GetCommentsRequest", "SearchRequest"}
      [] mod = "init" -> MarketClasses

\* The __dict__s the generated __init__ of mod.cls builds: it stores each argument
\* (or the field's default) under the field's name and checks nothing.
Instances(mod, cls) ==
    CASE cls = "CreateBinaryMarket" -> CreateBinaryMarket(mod)
      [] cls = "CreatePseudoNumericMarket" -> CreatePseudoNumericMarket(mod)
      [] cls = "CreateMultipleChoiceMarket" -> CreateMultipleChoiceMarket(mod)
      [] cls = "CreatePollMarket" -> CreatePollMarket(mod)
      [] cls = "CreateBountiedQuestionMarket" -> CreateBountiedQuestionMarket(mod)
      [] cls = "CreateBetRequest" -> CreateBetRequest(mod)
      [] cls = "GetMarketsRequest" -> GetMarketsRequest
      [] cls = "GetBetsRequest" -> GetBetsRequest
      [] cls = "GetCommentsRequest" -> GetCommentsRequest
      [] cls = "SearchRequest" -> SearchRequest
      [] cls = "GetGroupsRequest" -> GetGroupsRequest
      [] cls = "GetPositionsRequest" -> GetPositionsRequest
      [] cls = "GetUsersRequest" -> GetUsersRequest
      [] cls = "AwardBountyRequest" -> AwardBountyRequest
      [] cls = "ModifyGroupRequest" -> ModifyGroupRequest
      [] cls = "ResolveBinaryMarket" -> ResolveBinaryMarket
      [] cls = "ResolveMultipleChoiceMarket" -> ResolveMultipleChoiceMarket
      [] cls = "ResolveNumericMarket" -> ResolveNumericMarket
      [] cls = "SellSharesRequest" -> SellSharesRequest
      [] cls = "SellSharesDPMRequest" -> SellSharesDPMRequest
      [] cls = "CreateCommentRequest" -> CreateCommentRequest
      [] cls = "GetManagramsRequest" -> GetManagramsRequest
      [] cls = "GetLeaguesRequest" -> GetLeaguesRequest

\* self.to_json() by method resolution: the class's own to_json, else its base's;
\* the request classes of achaekek.py other than CreateBetRequest have none.
to_json(self, offset) ==
    CASE self.cls = "CreateMultipleChoiceMarket" ->
             CreateMultipleChoiceMarket_to_json(self.d, offset)
      [] self.cls \in MarketClasses \ {"CreateMultipleChoiceMarket"} ->
             CreateMarket_to_json(self.d, offset)
      [] self.mod = "achaekek" /\ self.cls = "CreateBetRequest" ->
             ach_CreateBetRequest_to_json(self.d, offset)
      [] self.mod = "achaekek" /\ self.cls \notin MarketClasses \cup {"CreateBetRequest"} ->
             finish(raise_frame(self.d, "AttributeError"))
      [] self.mod = "request_types" /\ self.cls = "CreateBetRequest" ->
             CreateBetRequest_to_json(self.d, offset)
      [] self.mod = "request_types" /\ self.cls = "GetGroupsRequest" ->
             GetGroupsRequest_to_json(self.d, offset)
      [] self.mod = "request_types" /\ self.cls = "ResolveMultipleChoiceMarket" ->
             ResolveMultipleChoiceMarket_to_json(self.d)
      [] self.mod = "request_types" /\ self.cls = "CreateCommentRequest" ->
             CreateCommentRequest_to_json(self.d)
      [] self.mod = "request_types" /\ self.cls = "GetManagramsRequest" ->
             GetManagramsRequest_to_json(self.d, offset)
      [] OTHER -> RequestModel_to_json(self.d)

(* ------------------------------------------------------------------ *)
(* The Client and the HTTP layer it calls                              *)
(* ------------------------------------------------------------------ *)

API_ROOT == "https://api.manifold.markets/v0"

\* The response the HTTP layer hands back; the Client passes it on unread.
Response == [t |-> "Response"]

\* What a Client method did: the requests it handed to requests.get or
\* requests.post, those of them that were issued, what it returned or raised, and
\* the argument's __dict__ afterwards.
Done(handed, reqs, ret, self) ==
    [handed |-> handed, reqs |-> reqs, ret |-> ret, self |-> self]

\* Whether json.dumps can encode a value: None, str, int, bool and float, and
\* lists, tuples and dicts of such; an enum member, a datetime or any other
\* object is not encodable (TypeError).
RECURSIVE json_encodable(_)
json_encodable(v) ==
    IF "t" \notin DOMAIN v THEN \A k \in DOMAIN v : json_encodable(v[k])
    ELSE CASE v.t \in {"None", "str", "int", "bool", "float"} -> TRUE
           [] v.t = "list" -> \A i \in 1..Len(v.items) : json_encodable(v.items[i])
           [] v.t = "dict" -> \A k \in DOMAIN v.d : json_encodable(v.d[k])
           [] v.t = "tuple" -> json_encodable(v.tag)
           [] OTHER -> FALSE

\* requests.get(...) or requests.post(...) with the arguments of req: the body is
\* encoded before anything is sent, and a json value that cannot be encoded
\* raises TypeError with no request issued.
requests_request(req, self) ==
    IF json_encodable(req.json) THEN Done(<<req>>, <<req>>, Return(Response), self)
    ELSE Done(<<req>>, <<>>, Raise("TypeError"), self)

\* Variant of get that sends no credential: requests.get(url, params=params).
get_unauthenticated(key, endpoint, params) ==
    [verb |-> "GET", url |-> API_ROOT \o endpoint, params |-> params, json |-> PyNone,
     headers |-> <<>>]

\* requests.get(url, params=params, headers=...) as Client._get issues it.
get(key, endpoint, params) ==
    [verb |-> "GET", url |-> API_ROOT \o endpoint, params |-> params, json |-> PyNone,
     headers |-> [Authorization |-> "Key " \o key]]

\* requests.post(url, json=json, headers=...) as Client._post issues it.
post(key, endpoint, json) ==
    [verb |-> "POST", url |-> API_ROOT \o endpoint, params |-> PyNone, json |-> json,
     headers |-> [Authorization |-> "Key " \o key]]

\* A call self._post(endpoint, <kw>=value): _post(self, endpoint, json=None) takes
\* no other keyword, and binding the arguments raises TypeError before its body runs.
call_post(key, endpoint, kw, value, self) ==
    IF kw = "json" THEN requests_request(post(key, endpoint, value), self)
    ELSE Done(<<>>, <<>>, Raise("TypeError"), self)

\* A call self._get(endpoint, params=value).
call_get(key, endpoint, value, self) ==
    requests_request(get(key, endpoint, value), self)

\* Client.create_market: the argument market.to_json() is evaluated first, and an
\* exception from it leaves _post uncalled.
Client_create_market(key, market, offset) ==
    LET r == to_json(market, offset)
    IN  IF r.ret.ok THEN call_post(key, "/market", "json", r.ret.val, r.self)
        ELSE Done(<<>>, <<>>, r.ret, r.self)

Client_get_group(key, slug) == call_get(key, "/group/" \o slug, PyNone, PyNone)

Client_get_markets(key, request) == call_get(key, "/markets", request.d, request.d)

Client_get_market(key, market_id) == call_get(key, "/market/" \o market_id, PyNone, PyNone)

Client_search_markets(key, request) ==
    call_get(key, "/search-markets", request.d, request.d)

Client_create_bet(key, request) == call_post(key, "/bet", "params", request.d, request.d)

Client_get_comments(key, request) == call_get(key, "/comments", request.d, request.d)

Client_get_bets(key, request) == call_get(key, "/bets", request.d, request.d)

Client_get_me(key) == call_get(key, "/me", PyNone, PyNone)

Client_get_user(key, username) == call_get(key, "/user/" \o username, PyNone, PyNone)

\* Client.create_market of src/achaekek/__init__.py, which calls requests.post itself.
init_Client_create_market(key, market, offset) ==
    LET r == to_json(market, offset)
    IN  IF r.ret.ok
        THEN requests_request(
                 [verb |-> "POST", url |-> "https://api.manifold.markets/v0/market",
                  params |-> PyNone, json |-> r.ret.val,
                  headers |-> [Authorization |-> "Key " \o key]],
                 r.self)
        ELSE Done(<<>>, <<>>, r.ret, r.self)

\* Client.create_market of src/src/achaekek/__init__.py: it hands requests.post
\* the market object itself (to_json is not called) and a Bearer credential.
init0_Client_create_market(key, market) ==
    requests_request(
        [verb |-> "POST", url |-> "https://api.manifold.markets/v0/market",
         params |-> PyNone,
         json |-> [t |-> "object", cls |-> market.cls, d |-> market.d],
         headers |-> [Authorization |-> "Bearer " \o key]],
        market.d)

\* The instance a request parameter defaults to: every field None.
DefaultRequest(cls) ==
    [mod |-> "achaekek", cls |-> cls,
     d |-> [k \in DOMAIN (CHOOSE x \in Instances("achaekek", cls) : TRUE) |-> PyNone]]

(* ------------------------------------------------------------------ *)
(* State and actions                                                   *)
(* ------------------------------------------------------------------ *)

NoRec == [t |-> "norec"]

NoCall == [t |-> "nocall"]

NoLookup == [t |-> "nolookup"]

Slugs == {"g1"}

MarketIds == {"m1", "m2"}

Usernames == {"alice"}

Init ==
    /\ rec = NoRec
    /\ results = <<>>
    /\ call = NoCall
    /\ api_key \in Keys
    /\ tz \in Offsets
    /\ lookup = NoLookup

\* The caller constructs a request variant.
Construct ==
    /\ rec = NoRec /\ call = NoCall /\ lookup = NoLookup
    /\ \E mod \in Mods : \E cls \in Classes(mod) : \E d \in Instances(mod, cls) :
           rec' = [mod |-> mod, cls |-> cls, d |-> d]
    /\ UNCHANGED <<results, call, api_key, tz, lookup>>

\* The caller serializes the variant it holds.
ToJson ==
    /\ rec /= NoRec
    /\ Len(results) < MaxCalls
    /\ LET r == to_json(rec, tz)
       IN  /\ results' = Append(results, r.ret)
           /\ rec' = [rec EXCEPT !.d = r.self]
    /\ UNCHANGED <<call, api_key, tz, lookup>>

\* The caller drops the variant, the payloads and the response.
Discard ==
    /\ rec /= NoRec \/ call /= NoCall \/ lookup /= NoLookup
    /\ rec' = NoRec
    /\ results' = <<>>
    /\ call' = NoCall
    /\ lookup' = NoLookup
    /\ UNCHANGED <<api_key, tz>>

\* The caller evaluates <Enum>.<NAME> in one of the files.
EnumLookup ==
    /\ rec = NoRec /\ call = NoCall
    /\ \E e \in EnumDefs : \E n \in Names(e.body) :
           lookup' = [mod |-> e.mod, cls |-> e.cls, name |-> n,
                      member |-> EnumMember(e.cls, e.body, n)]
    /\ UNCHANGED <<rec, results, call, api_key, tz>>

\* A Client method ran on the variant the caller holds.
Ran(op, r) ==
    /\ call' = [op |-> op, handed |-> r.handed, reqs |-> r.reqs, ret |-> r.ret]
    /\ rec' = [rec EXCEPT !.d = r.self]
    /\ UNCHANGED <<results, api_key, tz, lookup>>

\* A Client method ran on scalar or defaulted arguments.
RanBare(op, r) ==
    /\ call' = [op |-> op, handed |-> r.handed, reqs |-> r.reqs, ret |-> r.ret]
    /\ UNCHANGED <<rec, results, api_key, tz, lookup>>

create_market ==
    /\ call = NoCall /\ rec /= NoRec
    /\ rec.mod \in {"request_types", "achaekek"} /\ rec.cls \in MarketClasses
    /\ Ran("create_market", Client_create_market(api_key, rec, tz))

init_create_market ==
    /\ call = NoCall /\ rec /= NoRec
    /\ rec.mod = "init" /\ rec.cls \in MarketClasses
    /\ Ran("init.create_market", init_Client_create_market(api_key, rec, tz))

\* The first revision's Client takes whatever object it is given.
init0_create_market ==
    /\ call = NoCall /\ rec /= NoRec /\ rec.cls \in MarketClasses
    /\ Ran("init0.create_market", init0_Client_create_market(api_key, rec))

create_bet ==
    /\ call = NoCall /\ rec /= NoRec /\ rec.cls = "CreateBetRequest"
    /\ Ran("create_bet", Client_create_bet(api_key, rec))

get_markets ==
    /\ call = NoCall /\ lookup = NoLookup
    /\ \/ rec /= NoRec /\ rec.cls = "GetMarketsRequest"
          /\ Ran("get_markets", Client_get_markets(api_key, rec))
       \/ rec = NoRec
          /\ RanBare("get_markets",
                     Client_get_markets(api_key, DefaultRequest("GetMarketsRequest")))

search_markets ==
    /\ call = NoCall /\ rec /= NoRec /\ rec.cls = "SearchRequest"
    /\ Ran("search_markets", Client_search_markets(api_key, rec))

get_comments ==
    /\ call = NoCall /\ lookup = NoLookup
    /\ \/ rec /= NoRec /\ rec.cls = "GetCommentsRequest"
          /\ Ran("get_comments", Client_get_comments(api_key, rec))
       \/ rec = NoRec
          /\ RanBare("get_comments",
                     Client_get_comments(api_key, DefaultRequest("GetCommentsRequest")))

get_bets ==
    /\ call = NoCall /\ lookup = NoLookup
    /\ \/ rec /= NoRec /\ rec.cls = "GetBetsRequest"
          /\ Ran("get_bets", Client_get_bets(api_key, rec))
       \/ rec = NoRec
          /\ RanBare("get_bets", Client_get_bets(api_key, DefaultRequest("GetBetsRequest")))

get_market ==
    /\ call = NoCall /\ rec = NoRec /\ lookup = NoLookup
    /\ \E id \in MarketIds : RanBare("get_market", Client_get_market(api_key, id))

get_group ==
    /\ call = NoCall /\ rec = NoRec /\ lookup = NoLookup
    /\ \E slug \in Slugs : RanBare("get_group", Client_get_group(api_key, slug))

get_me ==
    /\ call = NoCall /\ rec = NoRec /\ lookup = NoLookup
    /\ RanBare("get_me", Client_get_me(api_key))

get_user ==
    /\ call = NoCall /\ rec = NoRec /\ lookup = NoLookup
    /\ \E u \in Usernames : RanBare("get_user", Client_get_user(api_key, u))

Next ==
    \/ Construct
    \/ ToJson
    \/ Discard
    \/ EnumLookup
    \/ create_market
    \/ init_create_market
    \/ init0_create_market
    \/ create_bet
    \/ get_markets
    \/ search_markets
    \/ get_comments
    \/ get_bets
    \/ get_market
    \/ get_group
    \/ get_me
    \/ get_user

Spec == Init /\ [][Next]_vars

(* ------------------------------------------------------------------ *)
(* Serialized payloads                                                 *)
(* ------------------------------------------------------------------ *)

\* The payloads to_json has returned for the variant the caller holds.
Payloads == {results[i].val : i \in {j \in 1..Len(results) : results[j].ok}}

\* C1: a payload returned by to_json has no key for a field of the record that is
\* None, and holds no None at all.
C1_AbsentFieldsOmitted ==
    \A p \in Payloads :
        /\ \A k \in DOMAIN rec.d : rec.d[k] = PyNone => k \notin DOMAIN p
        /\ \A k \in DOMAIN p : p[k] /= PyNone

\* A market variant with some optional fields absent and others present has been
\* serialized.
C1_Witness ==
    /\ rec /= NoRec /\ rec.cls = "CreatePollMarket" /\ rec.mod = "request_types"
    /\ rec.d.closeTime = PyNone /\ rec.d.visibility = PyNone
    /\ rec.d.groupIds /= PyNone /\ rec.d.extraLiquidity /= PyNone
    /\ Len(results) = 1 /\ results[1].ok
    /\ DOMAIN results[1].val = {"question", "groupIds", "extraLiquidity", "answers", "outcomeType"}

\* The wire string the enum body declares for a symbolic name.
WireOf(body, name) == body[DeclIndex(body, name)][2]

\* The discriminator each market-creation variant is to carry.
Discriminator(cls) ==
    CASE cls = "CreateBinaryMarket" -> "BINARY"
      [] cls = "CreatePseudoNumericMarket" -> "PSEUDO_NUMERIC"
      [] cls = "CreateMultipleChoiceMarket" -> "MULTIPLE_CHOICE"
      [] cls = "CreatePollMarket" -> "POLL"
      [] cls = "CreateBountiedQuestionMarket" -> "BOUNTIED_QUESTION"

\* The record's initial probability is within the range the specification sets
\* for construction, and its add-answers mode is supplied.
InRange(r) ==
    /\ r.cls = "CreateBinaryMarket" => IntOf(r.d.initialProb) \in 1..99
    /\ r.cls = "CreateMultipleChoiceMarket" => r.d.addAnswersMode /= PyNone

\* The record's discriminator is the one its class defaults to.
DefaultDiscriminator(r) ==
    r.cls \in MarketClasses =>
        r.d.outcomeType = EnumMember("OutcomeType", OutcomeType, Discriminator(r.cls))

\* C2: every payload of a market-creation variant has the key outcomeType, and
\* its value is the wire string of that variant's own discriminator.
C2_DiscriminatorFixed ==
    rec /= NoRec /\ rec.cls \in MarketClasses /\ InRange(rec) =>
        \A p \in Payloads :
            /\ "outcomeType" \in DOMAIN p
            /\ p["outcomeType"] = PyStr(WireOf(OutcomeType, Discriminator(rec.cls)))

\* The enumerated fields of a payload and the enum each belongs to.
EnumOfField(cls, k) ==
    CASE k = "outcomeType" -> OutcomeType
      [] k = "visibility" -> Visibility
      [] k = "addAnswersMode" -> AddAnswersMode
      [] k = "outcome" /\ cls = "CreateBetRequest" -> Outcome
      [] OTHER -> <<>>

\* C3: in every payload, the value under an enumerated field's key is a string,
\* one of the wire strings its enum declares.
C3_EnumsAsWireStrings ==
    rec /= NoRec /\ InRange(rec) /\ DefaultDiscriminator(rec) =>
        \A p \in Payloads : \A k \in DOMAIN p :
            EnumOfField(rec.cls, k) /= <<>> =>
                /\ p[k].t = "str"
                /\ p[k].s \in WireStrings(EnumOfField(rec.cls, k))

\* The variants whose description may be a tagged value.
Described == MarketClasses \cup {"CreateCommentRequest"}

\* The wire string of a description's tag: the declared wire string of a
\* DescriptionFormat member, or the tag itself where it is a plain string.
TagWire(tag) ==
    IF tag.t = "enum" THEN WireOf(DescriptionFormat, tag.name) ELSE tag.s

\* C4: the payload of a variant with a tagged description (content, tag) holds
\* content under the tag's wire string, has no key "description", and is otherwise
\* the payload of the same variant without a description.
C4_TaggedDescriptionFlattened ==
    rec /= NoRec /\ rec.cls \in Described /\ rec.d.description.t = "tuple" =>
        \A p \in Payloads :
            LET key     == TagWire(rec.d.description.tag)
                without == to_json([rec EXCEPT !.d.description = PyNone], tz).ret
            IN  /\ key \in DOMAIN p
                /\ p[key] = PyStr(rec.d.description.content)
                /\ "description" \notin DOMAIN p
                /\ without.ok
                /\ key \notin DOMAIN without.val
                /\ delitem(p, key) = without.val

\* A market with an HTML description and a comment with a markdown body have
\* their payloads: either is a state where the flattening has acted.
C4_Witness ==
    /\ rec /= NoRec /\ rec.cls = "CreateBinaryMarket"
    /\ rec.d.description = PyTuple("<p>x</p>", EnumMember("DescriptionFormat", DescriptionFormat, "HTML"))
    /\ rec.d.closeTime /= PyNone
    /\ Len(results) = 1 /\ results[1].ok
    /\ results[1].val["descriptionHTML"] = PyStr("<p>x</p>")

\* C5: the outcomes of all to_json calls on one record are equal, and no step
\* other than constructing or discarding changes the record.
C5_SerializationRepeatable ==
    /\ [](\A i, j \in 1..Len(results) : results[i] = results[j])
    /\ [][rec /= NoRec /\ rec' /= NoRec => rec' = rec]_vars

\* A variant with a tagged description has been serialized twice, both times to
\* a payload.
C5_Witness ==
    /\ rec /= NoRec /\ rec.cls \in MarketClasses /\ rec.d.description.t = "tuple"
    /\ rec.d.closeTime /= PyNone /\ rec.d.outcomeType /= PyNone
    /\ Len(results) = 2 /\ results[1].ok /\ results[2].ok
    /\ "description" \notin DOMAIN results[2].val

\* C6: a Binary market request that exists has an initial probability in 1..99
\* (construction with any other value fails), and 1 and 99 are accepted.
C6_InitialProbValidated ==
    rec /= NoRec /\ rec.cls = "CreateBinaryMarket" /\ DefaultDiscriminator(rec) =>
        IntOf(rec.d.initialProb) \in 1..99

\* The pct values of a resolutions list, summed.
RECURSIVE SumPct(_)
SumPct(items) ==
    IF items = <<>> THEN 0 ELSE IntOf(Head(items).d.pct) + SumPct(Tail(items))

\* C7: a multiple-choice resolution request that exists with a resolutions list
\* has a non-empty list whose pct values sum to 100, and serializes it as a
\* sequence of plain {answer, pct} mappings in the same order.
C7_ResolutionsValidated ==
    rec /= NoRec /\ rec.cls = "ResolveMultipleChoiceMarket"
        /\ rec.d.resolutions /= PyNone =>
        /\ rec.d.resolutions.items /= <<>>
        /\ SumPct(rec.d.resolutions.items) = 100
        /\ \A i \in 1..Len(results) :
               /\ results[i].ok
               /\ results[i].val["resolutions"] = resolution_dicts(rec.d.resolutions)

\* C8: the member a symbolic name evaluates to has a wire string that no other
\* symbolic name of the same enum definition has.
C8_WireStringsDistinct ==
    lookup /= NoLookup =>
        \A e \in EnumDefs :
            e.mod = lookup.mod /\ e.cls = lookup.cls =>
                \A n \in Names(e.body) \ {lookup.name} :
                    WireOf(e.body, n) /= lookup.member.value

\* The verb and path each Client operation is to use.
Route(op) ==
    CASE op = "create_market" -> [verb |-> "POST", paths |-> {"/market"}]
      [] op = "create_bet" -> [verb |-> "POST", paths |-> {"/bet"}]
      [] op = "get_markets" -> [verb |-> "GET", paths |-> {"/markets"}]
      [] op = "get_market" -> [verb |-> "GET", paths |-> {"/market/" \o id : id \in MarketIds}]
      [] op = "search_markets" -> [verb |-> "GET", paths |-> {"/search-markets"}]
      [] op = "get_comments" -> [verb |-> "GET", paths |-> {"/comments"}]

\* The variant serializes to a payload that the HTTP layer can encode.
Sendable(r) ==
    /\ to_json(r, tz).ret.ok
    /\ json_encodable(to_json(r, tz).ret.val)

\* C10: a call of one of the six operations (on an argument that serializes to
\* an encodable payload, where the operation serializes it) has issued exactly
\* one HTTP request, with the operation's verb, to the operation's path under
\* the base URL.
C10_OneRequestPerOperation ==
    call /= NoCall
        /\ call.op \in {"create_market", "create_bet", "get_markets", "get_market",
                        "search_markets", "get_comments"}
        /\ (call.op = "create_market" => Sendable(rec)) =>
        /\ Len(call.reqs) = 1
        /\ call.reqs[1].verb = Route(call.op).verb
        /\ call.reqs[1].url \in {API_ROOT \o path : path \in Route(call.op).paths}

\* The authorization schemes of the target API: key-style and bearer-style.
Schemes == {"Key", "Bearer"}

\* C11: no step changes the credential the Client holds (it stays the one the
\* Client was constructed with, through calls that return and calls that raise),
\* and every HTTP request a Client operation has handed to the HTTP layer, issued
\* or not, carries the header Authorization: "<scheme> <credential>".
C11_CredentialReadOnly ==
    /\ [][api_key' = api_key]_vars
    /\ [](call /= NoCall =>
             /\ \A i \in 1..Len(call.reqs) : call.reqs[i] = call.handed[i]
             /\ \A i \in 1..Len(call.handed) :
                    /\ "Authorization" \in DOMAIN call.handed[i].headers
                    /\ call.handed[i].headers["Authorization"]
                           \in {scheme \o " " \o api_key : scheme \in Schemes})

\* The Client constructed with the second credential has issued a query for
\* bets, and the request carries that credential.
C11_Witness ==
    /\ api_key = "k2"
    /\ call /= NoCall /\ call.op = "get_bets" /\ call.ret.ok
    /\ rec /= NoRec /\ rec.d.limit /= PyNone
    /\ Len(call.reqs) = 1
    /\ call.reqs[1].headers = [Authorization |-> "Key k2"]

\* The Client operations that take a request variant, in the files whose
\* variants have a to_json.
VariantOps ==
    {"create_market", "init.create_market", "create_bet", "get_markets",
     "search_markets", "get_comments", "get_bets"}

\* What a request hands to the HTTP layer: the body of a POST, the query
\* parameters of a GET.
Handed(req) == IF req.verb = "POST" THEN req.json ELSE req.params

\* C12: a call of an operation on a request variant (one whose market fields are
\* in range and, for create_market, whose to_json returns an encodable payload)
\* has returned, has handed the HTTP layer one request, and the mapping in it
\* is the variant's to_json payload and has no None in it.
C12_PayloadHandedOver ==
    call /= NoCall /\ rec /= NoRec /\ call.op \in VariantOps
        /\ InRange(rec) /\ DefaultDiscriminator(rec)
        /\ (rec.cls \in MarketClasses => Sendable(rec)) =>
        /\ call.ret.ok
        /\ Len(call.handed) = 1
        /\ to_json(rec, tz).ret.ok => Handed(call.handed[1]) = to_json(rec, tz).ret.val
        /\ \A k \in DOMAIN Handed(call.handed[1]) : Handed(call.handed[1])[k] /= PyNone

\* The outcome a place-bet request holds when the caller supplies none: the
\* string "YES" in request_types.py, the member Outcome.YES in achaekek.py.
DefaultOutcome(mod) ==
    IF mod = "request_types" THEN PyStr("YES") ELSE EnumMember("Outcome", Outcome, "YES")

\* C13: every to_json call on a place-bet request with the default outcome
\* returns a payload; its keys are amount, contractId and outcome plus
\* limitprob and expiresAt where supplied; outcome is the string "YES", amount
\* and contractId are the record's, expiresAt is the epoch milliseconds of the
\* record's expiry and limitprob its limit probability rounded to 2 places.
C13_PlaceBetSerialized ==
    rec /= NoRec /\ rec.cls = "CreateBetRequest"
        /\ rec.d.outcome = DefaultOutcome(rec.mod) =>
        \A i \in 1..Len(results) :
            /\ results[i].ok
            /\ DOMAIN results[i].val =
                   {"amount", "contractId", "outcome"}
                       \cup {k \in {"limitprob", "expiresAt"} : rec.d[k] /= PyNone}
            /\ results[i].val["outcome"] = PyStr("YES")
            /\ results[i].val["amount"] = rec.d.amount
            /\ results[i].val["contractId"] = rec.d.contractId
            /\ rec.d.expiresAt /= PyNone =>
                   results[i].val["expiresAt"] = epoch_ms(rec.d.expiresAt, tz)
            /\ rec.d.limitprob /= PyNone =>
                   results[i].val["limitprob"] = round2(rec.d.limitprob)

(* ------------------------------------------------------------------ *)
(* Timestamps: a second specification over many points in time         *)
(* ------------------------------------------------------------------ *)

Years == {1969, 1970, 2000, 2023, 2024, 2037}

Months == {1, 2, 3, 12}

DaysOfMonth == {1, 28, 29, 30, 31}

Clock == {<<0, 0, 0>>, <<12, 30, 15>>, <<23, 59, 59>>}

\* Whole-second datetimes the datetime constructor accepts.
WideTimes ==
    {PyDatetime(ymd[1], ymd[2], ymd[3], c[1], c[2], c[3], 0) :
        ymd \in {x \in Years \X Months \X DaysOfMonth : x[3] <= DaysInMonth(x[1], x[2])},
        c \in Clock}

\* Fixed local offsets, seconds east of UTC.
WideOffsets == {-43200, -18000, 0, 3600, 19800, 50400}

\* The variants that carry a timestamp, each with its other optional fields absent.
TimedRecords ==
    {[mod |-> m, cls |-> "CreateBinaryMarket",
      d |-> [question |-> PyStr("Will X happen?"), closeTime |-> t,
             description |-> PyNone, visibility |-> PyNone, groupIds |-> PyNone,
             extraLiquidity |-> PyNone, initialProb |-> PyInt(50),
             outcomeType |-> EnumMember("OutcomeType", OutcomeType, "BINARY")]] :
        m \in {"request_types", "achaekek"}, t \in WideTimes}
    \cup
    {[mod |-> "achaekek", cls |-> "CreateBetRequest",
      d |-> [amount |-> PyInt(10), contractId |-> PyStr("c1"),
             outcome |-> EnumMember("Outcome", Outcome, "YES"),
             limitprob |-> PyNone, expiresAt |-> t]] : t \in WideTimes}
    \cup
    {[mod |-> "request_types", cls |-> "CreateBetRequest",
      d |-> [amount |-> PyInt(10), contractId |-> PyStr("c1"), outcome |-> PyStr("YES"),
             limitprob |-> PyNone, expiresAt |-> t]] : t \in WideTimes}
    \cup
    {[mod |-> "request_types", cls |-> "GetGroupsRequest",
      d |-> [beforeTime |-> t, availableToUserId |-> PyNone]] : t \in WideTimes}
    \cup
    {[mod |-> "request_types", cls |-> "GetManagramsRequest",
      d |-> [toId |-> PyNone, fromId |-> PyNone, limit |-> PyNone,
             before |-> t, after |-> PyNone]] : t \in WideTimes}
    \cup
    {[mod |-> "request_types", cls |-> "GetManagramsRequest",
      d |-> [toId |-> PyNone, fromId |-> PyNone, limit |-> PyNone,
             before |-> PyDatetime(2024, 2, 29, 12, 0, 1, 0), after |-> t]] :
        t \in WideTimes}

InitTime ==
    /\ rec = NoRec
    /\ results = <<>>
    /\ call = NoCall
    /\ api_key \in Keys
    /\ tz \in WideOffsets
    /\ lookup = NoLookup

\* The caller constructs a variant that carries a timestamp.
ConstructTimed ==
    /\ rec = NoRec
    /\ rec' \in TimedRecords
    /\ UNCHANGED <<results, call, api_key, tz, lookup>>

NextTime ==
    \/ ConstructTimed
    \/ ToJson
    \/ Discard

SpecTime == InitTime /\ [][NextTime]_vars

\* The fields that hold a timestamp where their value is a datetime.
TimestampFields == {"closeTime", "expiresAt", "beforeTime", "before", "after"}

\* C9: in every payload, a timestamp field holds an int that is a multiple of
\* 1000, and the local structured time of that many milliseconds after the
\* epoch is the datetime the record holds, to the second.
C9_TimestampRoundTrip ==
    rec /= NoRec =>
        \A p \in Payloads : \A k \in TimestampFields \cap DOMAIN p :
            rec.d[k].t = "datetime" =>
                /\ p[k].t = "int"
                /\ p[k].lo % 1000 = 0
                /\ fromtimestamp(p[k].hi * 1000 + p[k].lo \div 1000, tz)
                       = [rec.d[k] EXCEPT !.us = 0]

\* One second before the epoch, on a leap day and at the end of 2037, east and
\* west of UTC: a managram query has its before cursor serialized.
C9_Witness ==
    /\ rec /= NoRec /\ rec.cls = "GetManagramsRequest"
    /\ rec.d.before = PyDatetime(2024, 2, 29, 12, 30, 15, 0)
    /\ tz = 19800
    /\ Len(results) = 1 /\ results[1].ok
    /\ results[1].val["before"] = [t |-> "int", hi |-> 1709190, lo |-> 15000]

====
